---- MODULE Spec2Model ----
(***************************************************************************)
(* Model of the WebSocket relay and entity filter of                       *)
(* everything-presence-mmwave-configurator/backend.py:                     *)
(*   - the process-wide Interest Set (selected_entity_ids) and its         *)
(*     POST /api/selected-entities handler,                                *)
(*   - the upstream session callbacks (ha_on_open, ha_on_message,          *)
(*     ha_on_close) run by the ha_thread,                                  *)
(*   - the main proxy loop and the forward_to_ha thread of                 *)
(*     websocket_proxy.                                                    *)
(***************************************************************************)
EXTENDS Naturals, Sequences, FiniteSets

\* ------------------------------------------------------------------ bounds
\* Longest 'result' list an upstream frame carries.
MaxLen == 2
\* Longest entity_ids list a POST /api/selected-entities body carries.
MaxIds == 2
\* Number of frames the upstream sends in one session (relay specification).
MaxMsgs == 2
\* Number of frames the downstream client sends (relay specification).
MaxCmds == 1
\* Number of /ws connections served one after the other (registry specification).
MaxRelays == 2

\* ------------------------------------------------------------- JSON values
\* A value is a record tagged by t; a missing key is Absent, JSON null is
\* Null (Python None), a JSON string is Str(s), a JSON array is List(v).
Absent == [t |-> "absent"]
Null == [t |-> "null"]
Str(s) == [t |-> "str", s |-> s]
List(v) == [t |-> "list", v |-> v]
IsDict(x) == x.t = "obj"

\* Python dict.get(key, default): the default only when the key is missing.
Get(value, default) == IF value = Absent THEN default ELSE value

\* Entity identifiers the frontend selects and the upstream reports.
Ids == {"a", "b", "c"}

\* An entity record of a get_states result: a dict, with or without entity_id.
Entity(eid) == [t |-> "obj", entity_id |-> eid]
EmptyDict == [t |-> "obj", entity_id |-> Absent, event_type |-> Absent, data |-> Absent]

\* Elements a 'result' list may hold: entity records for a and b, a record
\* without entity_id, and a non-record (a JSON string).
Elements == {Entity(Str("a")), Entity(Str("b")), Entity(Absent), Str("x")}

SeqsUpTo(S, n) == UNION {[1..k -> S] : k \in 0..n}
ResultLists == SeqsUpTo(Elements, MaxLen)

\* The data of a state_changed event, and the event itself.
EventData(eid) == [t |-> "obj", entity_id |-> eid, event_type |-> Absent, data |-> Absent]
Event(etype, data) == [t |-> "obj", entity_id |-> Absent, event_type |-> Str(etype), data |-> data]

\* A decoded message envelope (a JSON object).
Envelope(type, id, success, result, event) ==
    [t |-> "obj", type |-> type, id |-> id, success |-> success,
     result |-> result, event |-> event]

AuthTypes == {"auth_required", "auth_ok", "auth_invalid"}
AuthEnvelope(type) == Envelope(type, Absent, Absent, Absent, Absent)
ResultList(l) == Envelope("result", Str("1"), Str("true"), List(l), Absent)
ResultAck == Envelope("result", Str("1"), Str("true"), Null, Absent)
ResultError == Envelope("result", Str("1"), Str("false"), Absent, Absent)
StateChanged(eid) == Envelope("event", Str("1"), Absent, Absent, Event("state_changed", EventData(eid)))
StateChangedNoData == Envelope("event", Str("1"), Absent, Absent, Event("state_changed", Null))
OtherEvent == Envelope("event", Str("1"), Absent, Absent, Event("call_service", EventData(Str("a"))))
EventNull == Envelope("event", Str("1"), Absent, Absent, Null)
Pong == Envelope("pong", Str("1"), Absent, Absent, Absent)

\* ------------------------------------------------------------------ frames
\* A frame on a socket: a text frame carries a string, which is either the
\* serialisation of a JSON value (body) or not JSON at all (Garbage); enc
\* tells the upstream's own serialisation ("wire") from Python's json.dumps
\* ("dumps": other separators), so a re-serialised frame is not the frame
\* that was received.  A binary frame carries bytes.
Garbage == [t |-> "garbage"]
Text(body) == [frame |-> "text", body |-> body, enc |-> "wire"]
Binary == [frame |-> "binary", body |-> Garbage, enc |-> "wire"]
json_dumps(data) == [frame |-> "text", body |-> data, enc |-> "dumps"]
\* No frame at all (a local variable not yet assigned).
NoFrame == [frame |-> "none", body |-> Garbage, enc |-> "wire"]

Envelopes ==
    {AuthEnvelope(ty) : ty \in AuthTypes}
    \cup {ResultList(l) : l \in ResultLists}
    \cup {ResultAck, ResultError}
    \cup {StateChanged(Str(e)) : e \in Ids}
    \cup {StateChanged(Absent), StateChangedNoData, OtherEvent, EventNull, Pong}

\* Every frame the upstream may deliver: an envelope, a JSON value that is
\* no object, text that is no JSON, or a binary frame.
Messages == {Text(d) : d \in Envelopes} \cup {Text(List(<<>>)), Text(Garbage), Binary}

\* Frames of the relay specification: few shapes, so that whole sessions fit.
RelayMessages ==
    {Text(AuthEnvelope(ty)) : ty \in AuthTypes}
    \cup {Text(StateChanged(Str("a"))), Text(ResultList(<<Entity(Str("a")), Entity(Str("b"))>>)),
          Text(ResultList(<<Entity(Str("b")), Str("x")>>)), Text(Pong), Text(Garbage)}

\* --------------------------------------------------------------- variables
VARIABLES
    selected_entity_ids,  \* the global Interest Set (line 281)
    http_response,        \* response of the last POST /api/selected-entities
    http_repeat,          \* the last two POSTs carried the same identifiers
    http_before,          \* the Interest Set the last POST found
    http_ids,             \* the identifiers of the last POST that succeeded
    config,               \* which credential the environment provides
    proxy_active,         \* the relay's active flag (line 371)
    to_ha_queue,          \* downstream -> upstream queue (line 368)
    from_ha_queue,        \* upstream -> downstream queue (line 369)
    ha_state,             \* upstream socket / ha_thread: connecting, open, errored, closing, closed
    ha_budget,            \* frames the upstream will still deliver
    ha_seen,              \* types of the auth frames received on the session
    ha_sent,              \* frames written to the upstream socket
    on_message,           \* the running ha_on_message call, if any
    read_set,             \* Interest Set when that call entered the result branch
    writes,               \* times the set was replaced by another since (capped at 2)
    emitted,              \* every frame put on from_ha_queue, in order
    main_pc,              \* position of the main proxy loop
    forward_pc,           \* position of forward_to_ha
    ws_state,             \* downstream socket: open or closed
    ws_inbox,             \* frames the client sent, not yet received
    ws_budget,            \* frames the client will still send
    ws_sent,              \* frames written to the downstream socket
    client_sent,          \* the frames the client sent, in order, where recorded
    forward_msg,          \* the frame forward_to_ha took from to_ha_queue
    relays                \* number of /ws connections served so far

httpVars == <<http_response, http_repeat, http_before, http_ids>>
haVars == <<ha_state, ha_budget, ha_seen, ha_sent>>
filterVars == <<on_message, read_set, writes>>
wsVars == <<ws_state, ws_inbox, ws_budget, ws_sent, client_sent>>
vars == <<selected_entity_ids, httpVars, config, relays, proxy_active, to_ha_queue,
          from_ha_queue, haVars, filterVars, emitted, main_pc, forward_pc,
          forward_msg, wsVars>>

Range(f) == {f[i] : i \in DOMAIN f}

\* ---------------------------------------------- POST /api/selected-entities
\* set(entity_ids) (line 290) and the count the response carries (line 292).
\* The handler is one step: the registry has a single writer at a time.
\* http_repeat tells that this POST and the one before it both succeeded
\* with the same identifiers (the set still is what the previous one left).
NoResponse == [status |-> 0, success |-> FALSE, count |-> 0]
\* The request bodies: entity_ids lists, repeats included, and a body that is
\* no JSON object (Null).  set(entity_ids) does not depend on the order of
\* the list, so the lists are taken in one order of the identifiers.
IdRank(eid) == IF eid = "a" THEN 1 ELSE IF eid = "b" THEN 2 ELSE 3
InIdOrder(ids) == \A i \in 1..(Len(ids) - 1) : IdRank(ids[i]) <= IdRank(ids[i + 1])
Bodies == {List(ids) : ids \in {q \in SeqsUpTo(Ids, MaxIds) : InIdOrder(q)}} \cup {Null}

\* Mutant: the identifiers are added to the set (update, not replace).
set_selected_entities_update(old, entity_ids) == old \cup Range(entity_ids)

\* Mutant: the identifiers are toggled in the set (^= instead of =).
set_selected_entities_toggle(old, entity_ids) ==
    (old \ Range(entity_ids)) \cup (Range(entity_ids) \ old)

set_selected_entities(old, entity_ids) == Range(entity_ids)

PostResponse(set) == [status |-> 200, success |-> TRUE, count |-> Cardinality(set)]
ErrorResponse == [status |-> 500, success |-> FALSE, count |-> 0]

\* body Null: request.get_json() is None, data.get raises, the except branch
\* answers 500 and the set is left as it was (lines 293-295).
SetSelectedEntities(body) ==
    /\ http_repeat' = /\ body.t = "list"
                      /\ http_response.status = 200
                      /\ Range(body.v) = selected_entity_ids
    /\ http_before' = selected_entity_ids
    /\ IF body.t = "list"
       THEN /\ selected_entity_ids' = set_selected_entities(selected_entity_ids, body.v)
            /\ http_response' = PostResponse(selected_entity_ids')
            /\ http_ids' = {body.v[i] : i \in 1..Len(body.v)}
       ELSE /\ selected_entity_ids' = selected_entity_ids
            /\ http_response' = ErrorResponse
            /\ http_ids' = http_ids
    /\ writes' = IF /\ on_message.pc = "loop"
                     /\ selected_entity_ids' # selected_entity_ids
                     /\ writes < 2
                  THEN writes + 1 ELSE writes
    /\ UNCHANGED <<config, relays, proxy_active, to_ha_queue, from_ha_queue, haVars,
                   on_message, read_set, emitted, main_pc, forward_pc,
                   forward_msg, wsVars>>

\* ------------------------------------------------------------ ha_on_message
\* data = json.loads(message) if isinstance(message, str) else message
Bytes == [t |-> "bytes"]
ParseRaises(message) == message.frame = "text" /\ message.body = Garbage
Data(message) == IF message.frame = "text" THEN message.body ELSE Bytes

\* entity.get('entity_id', '') of a list element, and the membership test.
EntityIdOf(entity) == Get(entity.entity_id, Str(""))
IsSelected(entity, S) == EntityIdOf(entity).s \in S

\* The branch of ha_on_message a frame takes.  "except" is any exception
\* raised before the branch is chosen: json.loads on text that is no JSON,
\* .get on a value that is no dict (a list, bytes, None).
Branch(message) ==
    IF ParseRaises(message) \/ ~IsDict(Data(message)) THEN "except"
    ELSE LET data == Data(message) IN
         IF data.type \in AuthTypes THEN "auth"
         ELSE IF data.type = "result" /\ data.result.t = "list" THEN "result_list"
         ELSE IF data.type = "event"
              THEN LET event == Get(data.event, EmptyDict) IN
                   IF ~IsDict(event) THEN "except"
                   ELSE IF event.event_type = Str("state_changed")
                        THEN IF IsDict(Get(event.data, EmptyDict))
                             THEN "state_changed" ELSE "except"
                        ELSE "unhandled"
         ELSE IF data.type = "result" THEN "other_result"
         ELSE "unhandled"

\* What each branch puts on from_ha_queue: a sequence of zero or one frame.
\* Mutant: the auth frame is passed on like any other frame.
OnAuth_forwarded(message) == <<message>>

OnAuth(message) == <<>>

StateChangedId(message) ==
    Get(Get(Data(message).event.data, EmptyDict).entity_id, Str("")).s

\* Mutant: the event is re-serialised (json.dumps(data)) before it is put.
OnStateChanged_reserialised(message, S) ==
    IF StateChangedId(message) \in S THEN <<json_dumps(Data(message))>> ELSE <<>>

OnStateChanged(message, S) ==
    IF StateChangedId(message) \in S THEN <<message>> ELSE <<>>

\* Lines 435-440: a failed result is logged, and every result is put.
\* Mutant: a result that reports no success is logged and not put.
OnOtherResult_success_only(message) ==
    IF Data(message).success = Str("true") THEN <<message>> ELSE <<>>

OnOtherResult(message) == <<message>>

\* After line 440 the function ends: a frame of another type is not put.
OnUnhandled(message) == <<>>

\* Mutant: the except branch only logs.
OnException_dropped(message) == <<>>

OnException(message) == <<message>>

\* Mutant: the frame is put as received when something was kept.
OnResultList_unfiltered(message, filtered_entities) ==
    IF filtered_entities # <<>> THEN <<message>> ELSE <<>>

\* Lines 419-423: the filtered copy, re-serialised, unless nothing was kept.
OnResultList(message, filtered_entities) ==
    IF filtered_entities # <<>>
    THEN <<json_dumps([Data(message) EXCEPT !.result = List(filtered_entities)])>>
    ELSE <<>>

Put(message, S) ==
    CASE Branch(message) = "auth" -> OnAuth(message)
      [] Branch(message) = "state_changed" -> OnStateChanged(message, S)
      [] Branch(message) = "other_result" -> OnOtherResult(message)
      [] Branch(message) = "unhandled" -> OnUnhandled(message)
      [] OTHER -> OnException(message)

\* No call of ha_on_message is running.
Idle == [pc |-> "idle", message |-> NoFrame, i |-> 0, filtered_entities |-> <<>>]

Enqueue(frames) ==
    /\ from_ha_queue' = from_ha_queue \o frames
    /\ emitted' = emitted \o frames

\* The active flag after ha_on_message: the function has no nonlocal
\* declaration of proxy_active and no branch assigns it (lines 393-444).
\* Mutant: auth_invalid is fatal, the branch at lines 406-408 clears the flag.
ActiveAfterMessage_auth_invalid_fatal(message, active) ==
    IF Branch(message) = "auth" /\ Data(message).type = "auth_invalid"
    THEN FALSE ELSE active

ActiveAfterMessage(message, active) == active

\* A frame arrives: the branches that read the Interest Set at most once are
\* one step; the result branch starts the loop over the list (line 414).
HaOnMessage(message) ==
    /\ ha_state = "open"
    /\ on_message.pc = "idle"
    /\ ha_budget > 0
    /\ ha_budget' = ha_budget - 1
    /\ ha_seen' = IF Branch(message) = "auth"
                  THEN ha_seen \cup {Data(message).type} ELSE ha_seen
    /\ IF Branch(message) = "result_list"
       THEN /\ on_message' = [pc |-> "loop", message |-> message, i |-> 1,
                              filtered_entities |-> <<>>]
            /\ read_set' = selected_entity_ids
            /\ writes' = 0
            /\ UNCHANGED <<from_ha_queue, emitted>>
       ELSE /\ Enqueue(Put(message, selected_entity_ids))
            /\ UNCHANGED filterVars
    /\ proxy_active' = ActiveAfterMessage(message, proxy_active)
    /\ UNCHANGED <<selected_entity_ids, httpVars, config, relays, to_ha_queue,
                   ha_state, ha_sent, main_pc, forward_pc, forward_msg, wsVars>>

\* One iteration of the loop: entity.get raises on an element that is no
\* dict (the except branch puts the frame as received); otherwise the global
\* set is read once for this element.
HaFilterStep ==
    /\ on_message.pc = "loop"
    /\ on_message.i <= Len(Data(on_message.message).result.v)
    /\ LET entity == Data(on_message.message).result.v[on_message.i] IN
       IF ~IsDict(entity)
       THEN /\ Enqueue(OnException(on_message.message))
            /\ on_message' = Idle
            /\ read_set' = {}
            /\ writes' = 0
       ELSE /\ on_message' =
                 [on_message EXCEPT
                    !.i = @ + 1,
                    !.filtered_entities =
                        IF IsSelected(entity, selected_entity_ids)
                        THEN Append(@, entity) ELSE @]
            /\ UNCHANGED <<from_ha_queue, emitted, read_set, writes>>
    /\ UNCHANGED <<selected_entity_ids, httpVars, config, relays, proxy_active, to_ha_queue,
                   haVars, main_pc, forward_pc, forward_msg, wsVars>>

\* The loop is over: lines 419-424.
HaFilterDone ==
    /\ on_message.pc = "loop"
    /\ on_message.i > Len(Data(on_message.message).result.v)
    /\ Enqueue(OnResultList(on_message.message, on_message.filtered_entities))
    /\ on_message' = Idle
    /\ read_set' = {}
    /\ writes' = 0
    /\ UNCHANGED <<selected_entity_ids, httpVars, config, relays, proxy_active, to_ha_queue,
                   haVars, main_pc, forward_pc, forward_msg, wsVars>>

\* --------------------------------------------------- upstream session
\* ha_on_open (lines 377-391): the auth frame goes out as the socket opens.
\* Mutant: the elif branch uses the supervisor token too.
auth_message_supervisor_only(cfg) ==
    [t |-> "obj", type |-> "auth", access_token |-> "SUPERVISOR_TOKEN"]

auth_message(cfg) ==
    [t |-> "obj", type |-> "auth",
     access_token |-> IF cfg = "supervisor" THEN "SUPERVISOR_TOKEN" ELSE "HA_TOKEN"]

HaOnOpen ==
    /\ ha_state = "connecting"
    /\ ha_state' = "open"
    /\ ha_sent' = Append(ha_sent, json_dumps(auth_message(config)))
    /\ UNCHANGED <<selected_entity_ids, httpVars, config, relays, proxy_active, to_ha_queue,
                   from_ha_queue, ha_budget, ha_seen, filterVars, emitted, main_pc,
                   forward_pc, forward_msg, wsVars>>

\* ha_on_error (lines 446-447) logs; the socket is no longer connected.
HaOnError ==
    /\ ha_state \in {"connecting", "open"}
    /\ on_message.pc = "idle"
    /\ ha_state' = "errored"
    /\ UNCHANGED <<selected_entity_ids, httpVars, config, relays, proxy_active, to_ha_queue,
                   from_ha_queue, ha_budget, ha_seen, ha_sent, filterVars, emitted,
                   main_pc, forward_pc, forward_msg, wsVars>>

\* ha_on_close (lines 449-454): run_forever ends, the ha_thread dies.
\* Mutant: the handler only logs (proxy_active is left as it is).
HaOnClose_flag_kept ==
    /\ ha_state \in {"open", "errored", "closing"}
    /\ on_message.pc = "idle"
    /\ ha_state' = "closed"
    /\ UNCHANGED <<selected_entity_ids, httpVars, config, relays, proxy_active, to_ha_queue,
                   from_ha_queue, ha_budget, ha_seen, ha_sent, filterVars, emitted,
                   main_pc, forward_pc, forward_msg, wsVars>>

HaOnClose ==
    /\ ha_state \in {"open", "errored", "closing"}
    /\ on_message.pc = "idle"
    /\ ha_state' = "closed"
    /\ proxy_active' = FALSE
    /\ UNCHANGED <<selected_entity_ids, httpVars, config, relays, to_ha_queue,
                   from_ha_queue, ha_budget, ha_seen, ha_sent, filterVars, emitted,
                   main_pc, forward_pc, forward_msg, wsVars>>

\* --------------------------------------------------- downstream client
\* Frames the client sends: a command, or a text frame with no payload (the
\* empty string).
Empty == [t |-> "empty"]
Command(type) == Envelope(type, Str("1"), Absent, Absent, Absent)
ClientFrames == {Text(Empty), Text(Command("get_states"))}

ClientSend(frame) ==
    /\ ws_state = "open"
    /\ ws_budget > 0
    /\ ws_budget' = ws_budget - 1
    /\ ws_inbox' = Append(ws_inbox, frame)
    /\ UNCHANGED <<selected_entity_ids, httpVars, config, relays, proxy_active, to_ha_queue,
                   from_ha_queue, haVars, filterVars, emitted, main_pc, forward_pc,
                   forward_msg, ws_state, ws_sent>>

\* The same step, with and without the record of what the client sent
\* (client_sent is a history variable: the relay never reads it).
ClientSendUnrecorded(frame) == ClientSend(frame) /\ UNCHANGED client_sent
ClientSendRecorded(frame) == ClientSend(frame) /\ client_sent' = Append(client_sent, frame)

ClientClose ==
    /\ ws_state = "open"
    /\ ws_state' = "closed"
    /\ UNCHANGED <<selected_entity_ids, httpVars, config, relays, proxy_active, to_ha_queue,
                   from_ha_queue, haVars, filterVars, emitted, main_pc, forward_pc,
                   forward_msg, ws_inbox, ws_budget, ws_sent, client_sent>>

\* ------------------------------------------------------- main proxy loop
\* while proxy_active (line 505)
MainTest ==
    /\ main_pc = "test"
    /\ main_pc' = IF proxy_active THEN "drain" ELSE "cleanup"
    /\ UNCHANGED <<selected_entity_ids, httpVars, config, relays, proxy_active, to_ha_queue,
                   from_ha_queue, haVars, filterVars, emitted, forward_pc,
                   forward_msg, wsVars>>

\* from_ha_queue.get_nowait() (line 509): the oldest frame leaves the queue.
\* Mutant: a LIFO queue, the newest frame leaves first.
get_nowait_newest(queue) ==
    [item |-> queue[Len(queue)], rest |-> SubSeq(queue, 1, Len(queue) - 1)]

get_nowait(queue) == [item |-> Head(queue), rest |-> Tail(queue)]

\* Lines 507-516: one pass of the inner while; ws.send raises on a closed
\* downstream socket and the loop breaks, the frame taken being lost.
MainDrain ==
    /\ main_pc = "drain"
    /\ IF from_ha_queue = <<>>
       THEN /\ main_pc' = "receive"
            /\ UNCHANGED <<from_ha_queue, ws_sent>>
       ELSE /\ from_ha_queue' = get_nowait(from_ha_queue).rest
            /\ IF ws_state = "open"
               THEN /\ ws_sent' = Append(ws_sent, get_nowait(from_ha_queue).item)
                    /\ main_pc' = "drain"
               ELSE /\ ws_sent' = ws_sent
                    /\ main_pc' = "cleanup"
    /\ UNCHANGED <<selected_entity_ids, httpVars, config, relays, proxy_active, to_ha_queue,
                   haVars, filterVars, emitted, forward_pc, forward_msg,
                   ws_state, ws_inbox, ws_budget, client_sent>>

\* Lines 519-529: ws.receive(timeout=0.1) returns a frame, returns None on a
\* timeout, or raises once the connection is closed and nothing is buffered.
\* if frontend_message: (line 521) is false for the empty string.
Truthy(frame) == frame.body # Empty

MainReceive ==
    /\ main_pc = "receive"
    /\ IF ws_inbox # <<>>
       THEN /\ ws_inbox' = Tail(ws_inbox)
            /\ to_ha_queue' = IF Truthy(Head(ws_inbox))
                              THEN Append(to_ha_queue, Head(ws_inbox))
                              ELSE to_ha_queue
            /\ main_pc' = "test"
       ELSE /\ UNCHANGED <<ws_inbox, to_ha_queue>>
            /\ main_pc' = IF ws_state = "open" THEN "test" ELSE "cleanup"
    /\ UNCHANGED <<selected_entity_ids, httpVars, config, relays, proxy_active,
                   from_ha_queue, haVars, filterVars, emitted, forward_pc,
                   forward_msg, ws_state, ws_budget, ws_sent, client_sent>>

\* Lines 534-538, then the route returns and the downstream socket closes.
\* Mutant: the finally block does not close the upstream socket.
MainCleanup_upstream_left ==
    /\ main_pc = "cleanup"
    /\ proxy_active' = FALSE
    /\ ws_state' = "closed"
    /\ main_pc' = "done"
    /\ UNCHANGED <<selected_entity_ids, httpVars, config, relays, to_ha_queue,
                   from_ha_queue, haVars, filterVars, emitted,
                   forward_pc, forward_msg, ws_inbox, ws_budget, ws_sent, client_sent>>

MainCleanup ==
    /\ main_pc = "cleanup"
    /\ proxy_active' = FALSE
    /\ ha_state' = IF ha_state \in {"connecting", "open", "errored"}
                   THEN "closing" ELSE ha_state
    /\ ws_state' = "closed"
    /\ main_pc' = "done"
    /\ UNCHANGED <<selected_entity_ids, httpVars, config, relays, to_ha_queue,
                   from_ha_queue, ha_budget, ha_seen, ha_sent, filterVars, emitted,
                   forward_pc, forward_msg, ws_inbox, ws_budget, ws_sent, client_sent>>

\* ---------------------------------------------------------- forward_to_ha

\* while proxy_active and ha_thread.is_alive() (line 484)
ForwardTest ==
    /\ forward_pc = "test"
    /\ forward_pc' = IF proxy_active /\ ha_state # "closed" THEN "get" ELSE "done"
    /\ UNCHANGED <<selected_entity_ids, httpVars, config, relays, proxy_active, to_ha_queue,
                   from_ha_queue, haVars, filterVars, emitted, main_pc,
                   forward_msg, wsVars>>

\* ha_ws and ha_ws.sock and ha_ws.sock.connected (line 487).
\* Mutant: the test is left out, every dequeued frame goes to ha_ws.send.
connected_untested(state) == TRUE

connected(state) == state = "open"

\* to_ha_queue.get(timeout=1) (line 486) on a queue that is not empty: the
\* oldest frame leaves the queue.
\* Mutant: a LIFO queue, the newest frame leaves first.
get_timeout_newest(queue) ==
    [item |-> queue[Len(queue)], rest |-> SubSeq(queue, 1, Len(queue) - 1)]

get_timeout(queue) == [item |-> Head(queue), rest |-> Tail(queue)]

\* One pass of the loop body: the get, which times out on an empty queue
\* (lines 492-493), and the connected test (lines 487-490).
\* Mutant: a get without timeout, which waits until a frame is queued.
ForwardGet_blocking ==
    /\ forward_pc = "get"
    /\ to_ha_queue # <<>>
    /\ to_ha_queue' = get_timeout(to_ha_queue).rest
    /\ IF connected(ha_state)
       THEN /\ forward_msg' = get_timeout(to_ha_queue).item
            /\ forward_pc' = "send"
       ELSE /\ forward_msg' = NoFrame
            /\ forward_pc' = "test"
    /\ UNCHANGED <<selected_entity_ids, httpVars, config, relays, proxy_active,
                   from_ha_queue, haVars, filterVars, emitted, main_pc, wsVars>>

ForwardGet ==
    /\ forward_pc = "get"
    /\ IF to_ha_queue = <<>>
       THEN /\ forward_pc' = "test"
            /\ UNCHANGED <<to_ha_queue, forward_msg>>
       ELSE /\ to_ha_queue' = get_timeout(to_ha_queue).rest
            /\ IF connected(ha_state)
               THEN /\ forward_msg' = get_timeout(to_ha_queue).item
                    /\ forward_pc' = "send"
               ELSE /\ forward_msg' = NoFrame
                    /\ forward_pc' = "test"
    /\ UNCHANGED <<selected_entity_ids, httpVars, config, relays, proxy_active,
                   from_ha_queue, haVars, filterVars, emitted, main_pc, wsVars>>

\* ha_ws.send(message) (line 488); it raises when the socket closed after the
\* test, and the thread leaves its loop (lines 494-496).
ForwardSend ==
    /\ forward_pc = "send"
    /\ forward_msg' = NoFrame
    /\ IF ha_state = "open"
       THEN /\ ha_sent' = Append(ha_sent, forward_msg)
            /\ forward_pc' = "test"
       ELSE /\ ha_sent' = ha_sent
            /\ forward_pc' = "done"
    /\ UNCHANGED <<selected_entity_ids, httpVars, config, relays, proxy_active, to_ha_queue,
                   from_ha_queue, ha_state, ha_budget, ha_seen, filterVars, emitted,
                   main_pc, wsVars>>

\* --------------------------------------------------------- websocket_proxy
\* A new /ws connection once the relay before it is over (the route has
\* returned, its threads have ended): lines 367-501 give the new call its own
\* queues, flag, upstream socket and threads; selected_entity_ids is global
\* and is not touched.  The upstream delivers one frame per relay here and
\* the client sends none.
\* Mutant: a new relay starts from an empty Interest Set.
WebsocketProxy_registry_reset ==
    /\ main_pc = "done"
    /\ forward_pc = "done"
    /\ ha_state = "closed"
    /\ relays < MaxRelays
    /\ relays' = relays + 1
    /\ selected_entity_ids' = {}
    /\ proxy_active' = TRUE
    /\ to_ha_queue' = <<>>
    /\ from_ha_queue' = <<>>
    /\ ha_state' = "connecting"
    /\ ha_budget' = 1
    /\ ha_seen' = {}
    /\ ha_sent' = <<>>
    /\ emitted' = <<>>
    /\ main_pc' = "test"
    /\ forward_pc' = "test"
    /\ forward_msg' = NoFrame
    /\ ws_state' = "open"
    /\ ws_inbox' = <<>>
    /\ ws_sent' = <<>>
    /\ UNCHANGED <<httpVars, config, filterVars, ws_budget, client_sent>>

WebsocketProxy ==
    /\ main_pc = "done"
    /\ forward_pc = "done"
    /\ ha_state = "closed"
    /\ relays < MaxRelays
    /\ relays' = relays + 1
    /\ proxy_active' = TRUE
    /\ to_ha_queue' = <<>>
    /\ from_ha_queue' = <<>>
    /\ ha_state' = "connecting"
    /\ ha_budget' = 1
    /\ ha_seen' = {}
    /\ ha_sent' = <<>>
    /\ emitted' = <<>>
    /\ main_pc' = "test"
    /\ forward_pc' = "test"
    /\ forward_msg' = NoFrame
    /\ ws_state' = "open"
    /\ ws_inbox' = <<>>
    /\ ws_sent' = <<>>
    /\ UNCHANGED <<selected_entity_ids, httpVars, config, filterVars, ws_budget,
                   client_sent>>

\* ---------------------------------------------------------- specifications
\* The relay: one downstream connection from the moment websocket_proxy has
\* started its two threads.  The Interest Set is process-wide and outlives
\* relays: it is what the last POST before the connection left.
RelayBodies == {List(<<>>), List(<<"a">>)}

Init ==
    /\ \E body \in RelayBodies :
         /\ selected_entity_ids = set_selected_entities({}, body.v)
         /\ http_response = PostResponse(selected_entity_ids)
         /\ http_ids = {body.v[i] : i \in 1..Len(body.v)}
    /\ http_repeat = FALSE
    /\ http_before = {}
    /\ config \in {"supervisor", "external"}
    /\ proxy_active = TRUE
    /\ to_ha_queue = <<>>
    /\ from_ha_queue = <<>>
    /\ ha_state = "connecting"
    /\ ha_budget = MaxMsgs
    /\ ha_seen = {}
    /\ ha_sent = <<>>
    /\ on_message = Idle
    /\ read_set = {}
    /\ writes = 0
    /\ emitted = <<>>
    /\ main_pc = "test"
    /\ forward_pc = "test"
    /\ forward_msg = NoFrame
    /\ ws_state = "open"
    /\ ws_inbox = <<>>
    /\ ws_budget = MaxCmds
    /\ ws_sent = <<>>
    /\ client_sent = <<>>
    /\ relays = 1

Next ==
    \/ HaOnOpen
    \/ \E message \in RelayMessages : HaOnMessage(message)
    \/ HaFilterStep
    \/ HaFilterDone
    \/ HaOnError
    \/ HaOnClose
    \/ \E frame \in ClientFrames : ClientSendUnrecorded(frame)
    \/ ClientClose
    \/ MainTest
    \/ MainDrain
    \/ MainReceive
    \/ MainCleanup
    \/ ForwardTest
    \/ ForwardGet
    \/ ForwardSend

Spec == Init /\ [][Next]_vars

\* The filter alone: the upstream session is open and delivers one frame of
\* any shape while POSTs replace the Interest Set; the loops do not run.
InitFilter ==
    /\ selected_entity_ids = {}
    /\ http_response = NoResponse
    /\ http_ids = {}
    /\ http_repeat = FALSE
    /\ http_before = {}
    /\ config = "supervisor"
    /\ proxy_active = TRUE
    /\ to_ha_queue = <<>>
    /\ from_ha_queue = <<>>
    /\ ha_state = "open"
    /\ ha_budget = 1
    /\ ha_seen = {}
    /\ ha_sent = <<json_dumps(auth_message(config))>>
    /\ on_message = Idle
    /\ read_set = {}
    /\ writes = 0
    /\ emitted = <<>>
    /\ main_pc = "test"
    /\ forward_pc = "test"
    /\ forward_msg = NoFrame
    /\ ws_state = "open"
    /\ ws_inbox = <<>>
    /\ ws_budget = 0
    /\ ws_sent = <<>>
    /\ client_sent = <<>>
    /\ relays = 1

NextFilter ==
    \/ \E body \in Bodies : SetSelectedEntities(body)
    \/ \E message \in Messages : HaOnMessage(message)
    \/ HaFilterStep
    \/ HaFilterDone

SpecFilter == InitFilter /\ [][NextFilter]_vars

\* The outbound direction: the upstream delivers nothing, the client sends
\* commands (and empty frames) while the upstream session opens, fails and
\* closes; what the client sent is recorded.
OutboundFrames ==
    {Text(Empty), Text(Command("get_states")), Text(Command("subscribe_events"))}

InitOutbound ==
    /\ selected_entity_ids = {}
    /\ http_response = NoResponse
    /\ http_ids = {}
    /\ http_repeat = FALSE
    /\ http_before = {}
    /\ config = "supervisor"
    /\ proxy_active = TRUE
    /\ to_ha_queue = <<>>
    /\ from_ha_queue = <<>>
    /\ ha_state = "connecting"
    /\ ha_budget = 0
    /\ ha_seen = {}
    /\ ha_sent = <<>>
    /\ on_message = Idle
    /\ read_set = {}
    /\ writes = 0
    /\ emitted = <<>>
    /\ main_pc = "test"
    /\ forward_pc = "test"
    /\ forward_msg = NoFrame
    /\ ws_state = "open"
    /\ ws_inbox = <<>>
    /\ ws_budget = MaxCmds + 2
    /\ ws_sent = <<>>
    /\ client_sent = <<>>
    /\ relays = 1

NextOutbound ==
    \/ HaOnOpen
    \/ HaOnError
    \/ HaOnClose
    \/ \E frame \in OutboundFrames : ClientSendRecorded(frame)
    \/ ClientClose
    \/ MainTest
    \/ MainDrain
    \/ MainReceive
    \/ MainCleanup
    \/ ForwardTest
    \/ ForwardGet
    \/ ForwardSend

SpecOutbound == InitOutbound /\ [][NextOutbound]_vars

\* The registry and the relays: POSTs replace the Interest Set while relays
\* start, filter one upstream frame and are torn down, one after the other.
InitRegistry ==
    /\ \E body \in RelayBodies :
         /\ selected_entity_ids = set_selected_entities({}, body.v)
         /\ http_response = PostResponse(selected_entity_ids)
         /\ http_ids = {body.v[i] : i \in 1..Len(body.v)}
    /\ http_repeat = FALSE
    /\ http_before = {}
    /\ config = "supervisor"
    /\ proxy_active = TRUE
    /\ to_ha_queue = <<>>
    /\ from_ha_queue = <<>>
    /\ ha_state = "connecting"
    /\ ha_budget = 1
    /\ ha_seen = {}
    /\ ha_sent = <<>>
    /\ on_message = Idle
    /\ read_set = {}
    /\ writes = 0
    /\ emitted = <<>>
    /\ main_pc = "test"
    /\ forward_pc = "test"
    /\ forward_msg = NoFrame
    /\ ws_state = "open"
    /\ ws_inbox = <<>>
    /\ ws_budget = 0
    /\ ws_sent = <<>>
    /\ client_sent = <<>>
    /\ relays = 1

NextRegistry ==
    \/ \E body \in RelayBodies \cup {Null} : SetSelectedEntities(body)
    \/ WebsocketProxy
    \/ HaOnOpen
    \/ \E message \in RelayMessages : HaOnMessage(message)
    \/ HaFilterStep
    \/ HaFilterDone
    \/ HaOnError
    \/ HaOnClose
    \/ ClientClose
    \/ MainTest
    \/ MainDrain
    \/ MainReceive
    \/ MainCleanup
    \/ ForwardTest
    \/ ForwardGet

SpecRegistry == InitRegistry /\ [][NextRegistry]_vars

\* Termination: the relay of the first specification with one frame each
\* way, which is enough for every path to the end of the relay, and with the
\* two threads of the relay kept running: the main proxy loop and
\* forward_to_ha are threads the interpreter schedules again and again, and
\* every step of theirs returns (the receive after 0.1 s, the get after 1 s).
\* What the upstream and the client do, and when, is left open.
MainLoop == MainTest \/ MainDrain \/ MainReceive \/ MainCleanup
ForwardToHa == ForwardTest \/ ForwardGet \/ ForwardSend

InitLive ==
    /\ selected_entity_ids = set_selected_entities({}, <<"a">>)
    /\ http_response = PostResponse(selected_entity_ids)
    /\ http_ids = {"a"}
    /\ http_repeat = FALSE
    /\ http_before = {}
    /\ config = "supervisor"
    /\ proxy_active = TRUE
    /\ to_ha_queue = <<>>
    /\ from_ha_queue = <<>>
    /\ ha_state = "connecting"
    /\ ha_budget = 1
    /\ ha_seen = {}
    /\ ha_sent = <<>>
    /\ on_message = Idle
    /\ read_set = {}
    /\ writes = 0
    /\ emitted = <<>>
    /\ main_pc = "test"
    /\ forward_pc = "test"
    /\ forward_msg = NoFrame
    /\ ws_state = "open"
    /\ ws_inbox = <<>>
    /\ ws_budget = 1
    /\ ws_sent = <<>>
    /\ client_sent = <<>>
    /\ relays = 1

SpecLive == InitLive /\ [][Next]_vars /\ WF_vars(MainLoop) /\ WF_vars(ForwardToHa)

\* ------------------------------------------------------------------ claims
IsPrefix(s, t) == Len(s) <= Len(t) /\ SubSeq(t, 1, Len(s)) = s

\* The list of the frame the running ha_on_message call is filtering.
CurrentList == Data(on_message.message).result.v

\* A list of entity records: every element is a dict with an entity_id.
EntityRecords(l) == \A i \in DOMAIN l : IsDict(l[i]) /\ l[i].entity_id # Absent

\* The elements of l whose entity_id is in S, in their order.
KeptOf(l, S) == LET InS(e) == e.entity_id.s \in S IN SelectSeq(l, InS)

\* The queue after a call that filtered the list of message against S alone:
\* nothing more when nothing is kept, else one more frame, a text frame whose
\* value is the message's with 'result' replaced by the kept elements.
FilteredAgainst(message, S) ==
    LET kept == KeptOf(message.body.result.v, S) IN
    IF kept = <<>>
    THEN from_ha_queue' = from_ha_queue
    ELSE /\ Len(from_ha_queue') = Len(from_ha_queue) + 1
         /\ SubSeq(from_ha_queue', 1, Len(from_ha_queue)) = from_ha_queue
         /\ from_ha_queue'[Len(from_ha_queue')].frame = "text"
         /\ from_ha_queue'[Len(from_ha_queue')].body =
                [message.body EXCEPT !.result = List(kept)]

\* The step in which the loop over a result list ends without an exception.
ListDone == on_message.pc = "loop" /\ on_message'.pc = "idle" /\ EntityRecords(CurrentList)

\* C1: a 'result' frame whose list L holds entity records, filtered while the
\* Interest Set is S throughout, puts on the queue a copy whose 'result' is
\* the elements of L with entity_id in S, in order, other fields unchanged;
\* nothing is put when no element is kept.
C1_ResultListFiltered ==
    [][(ListDone /\ writes = 0) => FilteredAgainst(on_message.message, read_set)]_vars

\* Scenario 1: the set is {a}, the list [a, b] has been filtered to [a].
C1_Witness ==
    /\ on_message.pc = "loop"
    /\ on_message.message = Text(ResultList(<<Entity(Str("a")), Entity(Str("b"))>>))
    /\ on_message.i = 3
    /\ on_message.filtered_entities = <<Entity(Str("a"))>>
    /\ read_set = {"a"}
    /\ writes = 0

\* The state_changed events whose data is an object: entity_id e, or none
\* (the code then tests the empty string).
StateChangedIds == {Str(e) : e \in Ids} \cup {Absent}
IdOf(eid) == IF eid = Absent THEN "" ELSE eid.s

IsAuthSent(f) == f.body # Empty /\ f.body.type = "auth"
AuthsSent == {i \in DOMAIN ha_sent : IsAuthSent(ha_sent[i])}

Unrecognized(m) ==
    /\ m.frame = "text"
    /\ m.body # Garbage
    /\ IsDict(m.body)
    /\ m.body.type \notin AuthTypes \cup {"result"}
    /\ ~(/\ m.body.type = "event"
         /\ IsDict(m.body.event)
         /\ m.body.event.event_type = Str("state_changed"))

\* C4 as stated: every such frame is put on the queue as received.
C4_UnrecognizedForwarded ==
    [][ha_budget' # ha_budget =>
        \A m \in Messages :
            (Unrecognized(m) /\ HaOnMessage(m)) =>
                from_ha_queue' = Append(from_ha_queue, m)]_vars

\* A frame on which the filter raises before it chooses a branch: no text,
\* no JSON, no object, or an event whose payload is no object.
EnvelopeRaises(m) ==
    \/ m.frame # "text"
    \/ m.body = Garbage
    \/ ~IsDict(m.body)
    \/ /\ m.body.type = "event"
       /\ m.body.event # Absent
       /\ \/ ~IsDict(m.body.event)
          \/ /\ m.body.event.event_type = Str("state_changed")
             /\ m.body.event.data # Absent
             /\ ~IsDict(m.body.event.data)

\* C5: a frame on which the filter raises (at once, or in the loop at an
\* element that is no record) is put on the queue as received, once, and the
\* call ends; frames that arrive afterwards are filtered as usual.
C5_FailOpenVerbatim ==
    [][/\ ha_budget' # ha_budget =>
            \A m \in RelayMessages :
                HaOnMessage(m) =>
                    /\ EnvelopeRaises(m) =>
                           /\ from_ha_queue' = Append(from_ha_queue, m)
                           /\ emitted' = Append(emitted, m)
                           /\ on_message' = Idle
                    /\ m = Text(StateChanged(Str("a"))) =>
                           from_ha_queue' =
                               IF "a" \in selected_entity_ids
                               THEN Append(from_ha_queue, m) ELSE from_ha_queue
       /\ (/\ on_message.pc = "loop"
           /\ on_message.i <= Len(CurrentList)
           /\ ~IsDict(CurrentList[on_message.i])
           /\ on_message' # on_message) =>
              /\ from_ha_queue' = Append(from_ha_queue, on_message.message)
              /\ emitted' = Append(emitted, on_message.message)
              /\ on_message' = Idle]_vars

\* Text that is no JSON went downstream as received, once, and the event
\* that followed it was filtered and forwarded.
C5_Witness ==
    /\ emitted = <<Text(Garbage), Text(StateChanged(Str("a")))>>
    /\ ws_sent = emitted

\* An auth control frame of the upstream.
IsAuthFrame(f) ==
    /\ f.frame = "text"
    /\ f.body # Garbage
    /\ IsDict(f.body)
    /\ f.body.type \in AuthTypes

\* C6: no auth_required, auth_ok or auth_invalid frame is on the queue to
\* the downstream client or among the frames written to it.
C6_NoAuthDownstream ==
    \A f \in Range(from_ha_queue) \cup Range(ws_sent) \cup Range(emitted) : ~IsAuthFrame(f)

C6_Witness ==
    /\ "auth_invalid" \in ha_seen
    /\ ha_budget = 0
    /\ ws_sent # <<>>

\* C7: a POST that succeeds leaves the Interest Set equal to the distinct
\* identifiers it carried (nothing of the set before survives unless it was
\* carried) and answers their number; an event filtered afterwards is
\* forwarded iff its entity is among those identifiers.
C7_SetInterestReplaces ==
    [][/\ selected_entity_ids' = http_ids'
       /\ http_response'.status = 200 => http_response'.count = Cardinality(http_ids')
       /\ \A e \in selected_entity_ids : e \in selected_entity_ids' => e \in http_ids'
       /\ ha_budget' # ha_budget =>
            \A e \in Ids :
                HaOnMessage(Text(StateChanged(Str(e)))) =>
                    (from_ha_queue' # from_ha_queue <=> e \in http_ids)]_vars

\* SetInterest([a, b]) then SetInterest([c]): c is forwarded.
C7_Witness ==
    /\ http_before = {"a", "b"}
    /\ http_ids = {"c"}
    /\ selected_entity_ids = {"c"}
    /\ http_response = [status |-> 200, success |-> TRUE, count |-> 1]
    /\ emitted = <<Text(StateChanged(Str("c")))>>

\* C8: a POST with the identifiers of the POST before it changes neither the
\* Interest Set nor the answer, nor what the filter does with an event.
C8_SetInterestIdempotent ==
    [][http_repeat' =>
        /\ selected_entity_ids' = selected_entity_ids
        /\ http_response' = http_response
        /\ \A eid \in StateChangedIds :
               OnStateChanged(Text(StateChanged(eid)), selected_entity_ids')
                   = OnStateChanged(Text(StateChanged(eid)), selected_entity_ids)]_vars

C8_Witness ==
    /\ http_repeat
    /\ selected_entity_ids = {"a", "b"}
    /\ http_response.count = 2

\* C9 as stated: when the Interest Set is replaced once while a result list
\* is being filtered, what is put is the list filtered against the old set
\* or the list filtered against the new set.
C9_NoTornFilter ==
    [][(ListDone /\ writes = 1) =>
        \/ FilteredAgainst(on_message.message, read_set)
        \/ FilteredAgainst(on_message.message, selected_entity_ids)]_vars

\* C10: the frames written downstream are a prefix of the frames the filter
\* put on the queue.
C10_DownstreamOrder == IsPrefix(ws_sent, emitted)

C10_Witness ==
    /\ Len(ws_sent) = 2
    /\ ws_sent[1] # ws_sent[2]

\* s is t with some elements left out (the order kept).
RECURSIVE IsSubseq(_, _)
IsSubseq(s, t) ==
    IF s = <<>> THEN TRUE
    ELSE IF t = <<>> THEN FALSE
    ELSE IF Head(s) = Head(t) THEN IsSubseq(Tail(s), Tail(t))
    ELSE IsSubseq(s, Tail(t))

IsSuffix(s, t) == Len(s) <= Len(t) /\ SubSeq(t, Len(t) - Len(s) + 1, Len(t)) = s

\* The commands among the frames the client sent: the frames with a payload.
IsCommand(f) == f.body # Empty
CommandsOf(frames) == SelectSeq(frames, IsCommand)

\* The client frames written upstream: all but the auth frame of ha_on_open.
IsClientFrame(f) == ~IsAuthSent(f)
WrittenUpstream == SelectSeq(ha_sent, IsClientFrame)

\* The commands on their way: taken by forward_to_ha, queued, or not yet
\* read from the downstream socket.
Outstanding ==
    (IF forward_msg = NoFrame THEN <<>> ELSE <<forward_msg>>)
        \o to_ha_queue \o CommandsOf(ws_inbox)

Drained == Outstanding = <<>>

\* C11 as stated: once nothing is outstanding, the frames written upstream
\* are the commands the client sent, unchanged and in the order sent.
C11_EveryCommandUpstream == Drained => WrittenUpstream = CommandsOf(client_sent)

\* C11 amended: the frames written upstream are commands the client sent,
\* unchanged and in the order sent, and no command is made up, repeated or
\* overtaken (those written, then those outstanding, are the client's
\* commands with some left out, the outstanding ones being the last sent);
\* a command dequeued while the upstream is connected is handed to the write
\* and a write on a connected upstream appends exactly that command.  A
\* command dequeued while the upstream is not connected is left out.
C11_CommandsUpstreamInOrder ==
    /\ [](/\ IsSubseq(WrittenUpstream \o Outstanding, CommandsOf(client_sent))
          /\ IsSuffix(Outstanding, CommandsOf(client_sent)))
    /\ [][(to_ha_queue # <<>> /\ to_ha_queue' = Tail(to_ha_queue) /\ ha_state = "open")
              => forward_msg' = Head(to_ha_queue)]_vars
    /\ [][(forward_msg # NoFrame /\ forward_msg' = NoFrame /\ ha_state = "open")
              => ha_sent' = Append(ha_sent, forward_msg)]_vars
    /\ [][(ws_inbox' # ws_inbox /\ client_sent' = client_sent)
              => to_ha_queue' = to_ha_queue \o CommandsOf(<<Head(ws_inbox)>>)]_vars

\* Scenario 3: two different commands, sent after the upstream opened, are
\* upstream in the order sent and nothing is outstanding.
C11_Witness ==
    /\ client_sent =
           <<Text(Command("subscribe_events")), Text(Empty), Text(Command("get_states"))>>
    /\ WrittenUpstream = <<Text(Command("subscribe_events")), Text(Command("get_states"))>>
    /\ Drained

\* C12: once the upstream session has closed the active flag is false, and
\* the relay terminates: the main loop leaves its loop and runs cleanup, the
\* upstream socket staying closed.
C12_UpstreamCloseTerminates ==
    /\ [](ha_state = "closed" => ~proxy_active)
    /\ (ha_state = "closed") ~> (main_pc = "done" /\ ~proxy_active /\ ha_state = "closed")

\* The upstream closed while the client was connected, and the main loop
\* has left its loop for the cleanup.
C12_Witness ==
    /\ ha_state = "closed"
    /\ ws_state = "open"
    /\ main_pc = "cleanup"

\* C13 as stated: once the upstream close callback has set the active flag
\* false, nothing more is written to the downstream client.
C13_NoSendAfterClose ==
    [][(ha_state = "closed" /\ ~proxy_active) => ws_sent' = ws_sent]_vars

\* The step in which forward_to_ha takes a frame from the outbound queue.
Dequeued == Len(to_ha_queue') < Len(to_ha_queue)

\* The number of client commands written upstream or still on their way.
InHand == Len(WrittenUpstream) + Len(Outstanding)

\* C14: a frame dequeued while the upstream is connected goes to the write,
\* and a frame is written upstream only by a write on a connected upstream;
\* a frame dequeued while the upstream is not connected is discarded (it is
\* nowhere in the relay afterwards and never comes back) and the task goes
\* on with its loop.
C14_WrittenIffConnected ==
    /\ [][(Dequeued /\ ha_state # "open") =>
              /\ to_ha_queue' = Tail(to_ha_queue)
              /\ forward_msg' = NoFrame
              /\ ha_sent' = ha_sent
              /\ forward_pc' = "test"]_vars
    /\ [][(Dequeued /\ ha_state = "open") =>
              /\ to_ha_queue' = Tail(to_ha_queue)
              /\ forward_msg' = Head(to_ha_queue)
              /\ forward_pc' = "send"]_vars
    /\ [][(ha_sent' # ha_sent /\ ha_state # "connecting") =>
              /\ ha_state = "open"
              /\ forward_pc = "send"
              /\ ha_sent' = Append(ha_sent, forward_msg)
              /\ forward_pc' = "test"]_vars
    /\ [][(forward_pc = "send" /\ forward_pc' # "send" /\ ha_state = "open") =>
              ha_sent' = Append(ha_sent, forward_msg)]_vars
    /\ [][client_sent' = client_sent => InHand' <= InHand]_vars

\* The first command was dequeued before the upstream had opened and is
\* gone; the second, dequeued after, is upstream.
C14_Witness ==
    /\ client_sent = <<Text(Command("get_states")), Text(Command("subscribe_events"))>>
    /\ WrittenUpstream = <<Text(Command("subscribe_events"))>>
    /\ Drained
    /\ forward_pc = "test"

\* The step in which the finally block runs, and what ends the relay: the
\* downstream socket is closed (a read or a write on it raises) or the
\* active flag is false.
CleanupRuns == main_pc = "cleanup" /\ main_pc' # "cleanup"
RelayEnded == ws_state = "closed" \/ ~proxy_active

\* C15: the main loop leaves its loop only when the downstream socket is
\* closed or the active flag is false, and then always does; cleanup runs
\* once (after it the route is over for good), leaves the active flag false
\* and the upstream socket closed or being closed, and changes neither when
\* the upstream session is closed already.
C15_CleanupOnceOnEveryPath ==
    /\ [][(main_pc' = "cleanup" /\ main_pc # "cleanup") => RelayEnded]_vars
    /\ [][CleanupRuns =>
              /\ main_pc' = "done"
              /\ ~proxy_active'
              /\ ha_state' \in {"closing", "closed"}
              /\ ha_state = "closed" => UNCHANGED <<ha_state, proxy_active>>
              /\ UNCHANGED <<to_ha_queue, from_ha_queue, ha_sent, ws_sent>>]_vars
    /\ [][main_pc = "done" => main_pc' = "done"]_vars
    /\ RelayEnded ~> (main_pc = "done")

\* The downstream write error: the client was gone when the main loop took a
\* frame from the queue, the frame is lost, and cleanup has closed the
\* upstream socket that was still open.
C15_Witness ==
    /\ main_pc = "done"
    /\ emitted # <<>>
    /\ from_ha_queue = <<>>
    /\ ws_sent = <<>>
    /\ ha_state = "closing"
    /\ ~proxy_active

\* C16 as stated: when the upstream error callback has run, the active flag
\* is false.
C16_ErrorClearsActive ==
    [][(ha_state' = "errored" /\ ha_state # "errored") => ~proxy_active']_vars

\* C17: receiving auth_invalid changes neither the active flag, nor a queue,
\* nor the upstream connection, nor where the two loops are; the active flag
\* becomes false only when the upstream session closes or when cleanup runs
\* after the downstream socket closed.
C17_AuthInvalidNoTeardown ==
    /\ [][ha_budget' # ha_budget =>
              (HaOnMessage(Text(AuthEnvelope("auth_invalid"))) =>
                  UNCHANGED <<proxy_active, to_ha_queue, from_ha_queue, emitted,
                              ha_state, ha_sent, main_pc, forward_pc>>)]_vars
    /\ [][(proxy_active /\ ~proxy_active') =>
              \/ ha_state # "closed" /\ ha_state' = "closed"
              \/ main_pc = "cleanup" /\ ws_state = "closed"]_vars

\* auth_invalid was received and the relay goes on: the flag is true, the
\* upstream is open, both loops are waiting for frames.
C17_Witness ==
    /\ "auth_invalid" \in ha_seen
    /\ proxy_active
    /\ ha_state = "open"
    /\ main_pc = "receive"
    /\ forward_pc = "get"
    /\ ha_budget = 0

\* A 'result' envelope whose 'result' field is no list (null, or missing).
NonListResult(m) ==
    /\ m.frame = "text"
    /\ m.body # Garbage
    /\ IsDict(m.body)
    /\ m.body.type = "result"
    /\ m.body.result.t # "list"

\* C18: a 'result' frame whose 'result' is no list is put on the queue to
\* the downstream client as received, once, whatever the Interest Set is.
C18_OtherResultForwarded ==
    [][ha_budget' # ha_budget =>
        \A m \in Messages :
            (NonListResult(m) /\ HaOnMessage(m)) =>
                /\ from_ha_queue' = Append(from_ha_queue, m)
                /\ emitted' = Append(emitted, m)
                /\ on_message' = Idle]_vars

\* An error result went through while the Interest Set held identifiers.
C18_Witness ==
    /\ emitted = <<Text(ResultError)>>
    /\ selected_entity_ids = {"a", "b"}

\* C19: the Interest Set changes only in a step of the POST handler: a
\* relay starting, a relay being torn down and the filter handling a frame
\* leave it as it is; and a relay, also one started after another was torn
\* down, forwards an event iff its entity is among the identifiers of the
\* last POST that succeeded.
C19_OnlySetInterestWrites ==
    /\ [][selected_entity_ids' # selected_entity_ids =>
              \E body \in RelayBodies : SetSelectedEntities(body)]_vars
    /\ [][(relays' # relays \/ proxy_active' # proxy_active \/ ha_state' # ha_state
               \/ main_pc' # main_pc \/ on_message' # on_message \/ emitted' # emitted)
              => selected_entity_ids' = selected_entity_ids]_vars
    /\ [](selected_entity_ids = http_ids)
    /\ [][ha_budget' < ha_budget =>
              (HaOnMessage(Text(StateChanged(Str("a")))) =>
                  (from_ha_queue' # from_ha_queue <=> "a" \in http_ids))]_vars

\* The second relay forwarded the event for a: a POST had replaced the empty
\* Interest Set by {a}, and the relay found it.
C19_Witness ==
    /\ relays = 2
    /\ http_before = {}
    /\ http_ids = {"a"}
    /\ emitted = <<Text(StateChanged(Str("a")))>>

\* C20: once the active flag is false the main loop and forward_to_ha both
\* come to their end, whatever the queues hold and whatever the client
\* sends; and neither loop waits for a frame without coming back to its
\* test of the flag.
C20_NoTaskBlocksForever ==
    /\ (~proxy_active) ~> (main_pc = "done" /\ forward_pc = "done")
    /\ (main_pc = "receive") ~> (main_pc \in {"test", "cleanup", "done"})
    /\ (forward_pc = "get") ~> (forward_pc \in {"test", "done"})

\* Both tasks have ended though the outbound queue was empty and the client
\* had sent nothing and was still connected when the main loop left.
C20_Witness ==
    /\ main_pc = "done"
    /\ forward_pc = "done"
    /\ ws_budget = 1
    /\ ha_sent = <<json_dumps(auth_message(config))>>
    /\ ha_state = "closed"
    /\ emitted = <<>>

\* C21 as stated: once forward_to_ha has ended, for whatever reason, the
\* relay is torn down: the active flag becomes false and the main loop ends.
C21_ForwardEndTearsDown ==
    (forward_pc = "done") ~> (~proxy_active /\ main_pc = "done")

\* A 'result' frame with a list, and the entity records in a list.
IsResultListFrame(f) ==
    /\ f.frame = "text"
    /\ f.body # Garbage
    /\ IsDict(f.body)
    /\ f.body.type = "result"
    /\ f.body.result.t = "list"

RecordsOf(l) == {l[i] : i \in {j \in DOMAIN l : IsDict(l[j]) /\ l[j].entity_id # Absent}}

\* C22 as stated: every entity record in a 'result' list written to the
\* downstream client is of an entity in the Interest Set (which no step of
\* this specification changes, so it is the set the filter read).
C22_NoRecordOutsideInterestSet ==
    \A f \in Range(ws_sent) :
        IsResultListFrame(f) =>
            \A entity \in RecordsOf(f.body.result.v) :
                entity.entity_id.s \in selected_entity_ids

====
